---------------------------- MODULE Spec2Model ----------------------------
(***************************************************************************)
(* Model of custom_components/xiaomi_miot/binary_sensor.py: the platform   *)
(* setup that turns the services of a MIoT spec into binary-sensor         *)
(* entities, the constructors that select the state property, the is_on /  *)
(* state properties, and the async_update handlers of the BLE, Lumi and    *)
(* toilet entities.                                                        *)
(*                                                                         *)
(* Python values: None is the empty tuple <<>>, any other value v is the   *)
(* one-element tuple <<v>>.  Booleans are the integers 1 and 0 (in Python  *)
(* True == 1 and False == 0, and bool is a subclass of int).               *)
(***************************************************************************)
EXTENDS Integers, Sequences, FiniteSets, TLC

VARIABLES
    config,         \* the platform / entity configuration (miot_type, miot_did, model, custom config)
    spec,           \* the MiotSpec of the device: its name and its services
    pc,             \* position: "start", "done", "raised" (setup) or "entity" (a constructed entity)
    entities,       \* the local list `entities` of async_setup_platform
    hass_entities,  \* hass.data[DOMAIN]['entities']
    add_calls,      \* the calls made to async_add_entities, each with its argument
    add_entities,   \* hass.data[DOMAIN]['add_entities']: the domains with a registered callback
    sub_calls,      \* the sub-entities passed to the callbacks of other domains, in order
    entity,         \* the entity under update: class, service, _prop_state, _prop_illumination, ...
    available,      \* entity._available
    state,          \* entity._state
    state_attrs,    \* entity._state_attrs
    subs,           \* entity._subs: the keys of the sub-entities
    last            \* what the last handler saw and did (history, for the properties)

vars == <<config, spec, pc, entities, hass_entities, add_calls, add_entities, sub_calls,
          entity, available, state, state_attrs, subs, last>>

---------------------------------------------------------------------------
(* Bounds of the model *)

MaxServices == 2
MaxProps == 2

---------------------------------------------------------------------------
(* Python helpers *)

None == <<>>
Some(v) == <<v>>
Val(o) == o[1]
Bool(b) == IF b THEN 1 ELSE 0
Truthy(o) == o # None /\ Val(o) # 0

\* `sub in s` on strings
Contains(s, sub) ==
    \E i \in 1..(Len(s) - Len(sub) + 1) : SubSeq(s, i, i + Len(sub) - 1) = sub

\* the sequences without repetition, of length at most n, over the set S
RECURSIVE DistinctSeqs(_, _)
DistinctSeqs(S, n) ==
    IF n = 0 THEN {<<>>}
    ELSE LET shorter == DistinctSeqs(S, n - 1)
         IN  shorter \cup
             {Append(q, x) : <<q, x>> \in
                 {<<q, x>> \in shorter \X S :
                     /\ Len(q) = n - 1
                     /\ \A i \in 1..Len(q) : q[i] # x}}

Range(q) == {q[i] : i \in 1..Len(q)}

---------------------------------------------------------------------------
(* The MIoT spec: services and their properties (core/miot_spec.py) *)

CandidateNames == <<"toilet", "seat", "motion_sensor", "magnet_sensor", "submersion_sensor">>

ServiceNames == Range(CandidateNames) \cup {"nobody_time", "illumination_sensor"}

\* the property names a service of each name may carry
PropNames(name) ==
    CASE name = "toilet"              -> {"seating_state", "mode", "heat_level", "on"}
      [] name = "seat"                -> {"seating_state", "heat_level", "heating"}
      [] name = "motion_sensor"       -> {"motion_state", "no_motion_duration", "illumination"}
      [] name = "magnet_sensor"       -> {"contact_state", "illumination"}
      [] name = "submersion_sensor"   -> {"submersion_state", ""}
      [] name = "nobody_time"         -> {"nobody_time"}
      [] name = "illumination_sensor" -> {"illumination"}

Services ==
    UNION {[name : {n}, props : DistinctSeqs(PropNames(n), MaxProps)] : n \in ServiceNames}

\* a spec: a device-type name and services of distinct names
Specs ==
    [name : {"toilet", "motion_sensor"},
     services : {q \in DistinctSeqs(Services, MaxServices) :
                    /\ Len(q) >= 1
                    /\ \A i, j \in 1..Len(q) : i # j => q[i].name # q[j].name}]

\* the value ranges and value lists of the properties: the full names of the
\* properties that have a value_range, its minimum and step (one range
\* descriptor serves all of them), and those that have a value_list
NoValues == [ranged |-> {}, rmin |-> 0, rstep |-> 1, listed |-> {}]

WithValues(sp, vals) ==
    [name |-> sp.name, services |-> sp.services, value |-> vals]


\* MiotProperty.full_name
FullName(srv, pname) == srv.name \o "." \o pname

\* a MiotProperty of a service
Property(srv, pname) ==
    [name |-> pname, full_name |-> FullName(srv, pname), service |-> srv.name]

\* MiotSpec.get_services(*names): the services named so, in the spec's order
RECURSIVE SelectServices(_, _)
SelectServices(srvs, names) ==
    IF srvs = <<>> THEN <<>>
    ELSE IF Head(srvs).name \in names
         THEN <<Head(srvs)>> \o SelectServices(Tail(srvs), names)
         ELSE SelectServices(Tail(srvs), names)

get_services(sp, names) == SelectServices(sp.services, names)

\* MiotSpec.get_service(name): the first such service, or None
get_service(sp, name) ==
    LET found == get_services(sp, {name})
    IN  IF found = <<>> THEN None ELSE Some(found[1])

\* MiotService.get_property(*names): the property of the first name that the
\* service has, or None
RECURSIVE get_property(_, _)
get_property(srv, names) ==
    IF names = <<>> THEN None
    ELSE IF Head(names) \in Range(srv.props)
         THEN Some(Property(srv, Head(names)))
         ELSE get_property(srv, Tail(names))

\* MiotService.mapping(): the properties of the service by full name
mapping(srv) == {FullName(srv, srv.props[i]) : i \in 1..Len(srv.props)}

\* a and b of Python's `a or b`, for objects that are None or truthy
Or(a, b) == IF a # None THEN a ELSE b

---------------------------------------------------------------------------
(* The constructors *)

\* MiotBinarySensorEntity.__init__, lines 86-91: the service's first property,
\* when it has one with a non-empty name
first_property(srv) ==
    LET pls == IF Len(srv.props) > 0 /\ srv.props[1] # ""
               THEN <<srv.props[1]>> ELSE <<>>
    IN  get_property(srv, pls)

\* line 94
motion_property(srv) ==
    Or(get_property(srv, <<"motion_state", "no_motion_duration">>), first_property(srv))

\* line 95 reads self._prop_state.name: an AttributeError when it is None
init_raises(srv) ==
    srv.name = "motion_sensor" /\ motion_property(srv) = None

\* lines 93-110: the state property of a service whose construction completes
prop_state_of(sp, srv) ==
    CASE srv.name = "motion_sensor" ->
            LET p1 == motion_property(srv)
                p2 == IF Val(p1).name = "illumination" THEN None ELSE p1
                nt == get_service(sp, "nobody_time")
            IN  IF p2 = None /\ nt # None
                THEN get_property(Val(nt), <<"nobody_time">>)
                ELSE p2
      [] srv.name = "magnet_sensor" ->
            Or(get_property(srv, <<"contact_state">>), first_property(srv))
      [] srv.name = "submersion_sensor" ->
            Or(get_property(srv, <<"submersion_state">>), first_property(srv))
      [] OTHER -> first_property(srv)

\* lines 98, 106, 110: self._vars['device_class']
device_class_of(srv) ==
    CASE srv.name = "motion_sensor"     -> "motion"
      [] srv.name = "magnet_sensor"     -> "door"
      [] srv.name = "submersion_sensor" -> "moisture"
      [] OTHER                          -> "None"

\* lines 112-114 and 274-276: the 'state_property' attribute
state_property_attr(p) == IF p # None THEN Some(Val(p).full_name) ELSE None

\* MiotBinarySensorEntity(config, srv)
MiotBinarySensorEntity(cls, sp, srv) ==
    LET p == prop_state_of(sp, srv)
    IN  [cls |-> cls, service |-> srv, prop_state |-> p,
         device_class |-> device_class_of(srv),
         state_property |-> state_property_attr(p),
         prop_illumination |-> None, prop_power |-> None]

\* BleBinarySensorEntity.__init__, lines 155-160
BleBinarySensorEntity(sp, srv) ==
    LET base == MiotBinarySensorEntity("BleBinarySensorEntity", sp, srv)
        own == get_property(srv, <<"illumination">>)
        ils == get_service(sp, "illumination_sensor")
    IN  [base EXCEPT !.prop_illumination =
            IF own = None /\ ils # None
            THEN get_property(Val(ils), <<"illumination">>)
            ELSE own]

\* LumiBinarySensorEntity.__init__, lines 326-327
LumiBinarySensorEntity(sp, srv) ==
    MiotBinarySensorEntity("LumiBinarySensorEntity", sp, srv)

\* MiotToggleEntity.__init__ (base class): self._prop_power
prop_power_of(srv) == get_property(srv, <<"on">>)

\* MiotToiletEntity.__init__, lines 263-276
MiotToiletEntity(sp, srv) ==
    LET base == MiotBinarySensorEntity("MiotToiletEntity", sp, srv)
        seating == get_property(srv, <<"seating_state">>)
        p == IF seating = None THEN get_property(srv, <<"mode", "status">>) ELSE seating
    IN  [base EXCEPT !.prop_state = p,
                     !.state_property = state_property_attr(p),
                     !.prop_power = prop_power_of(srv)]

---------------------------------------------------------------------------
(* async_setup_platform *)

ENTITY_DOMAIN == "binary_sensor"

\* lines 56-63: the service is passed over
Skipped(cfg, sp, srv) ==
    /\ get_service(sp, "nobody_time") = None
    /\ cfg.model # "lumi.sensor_wleak.aq1"
    /\ mapping(srv) = {}

\* lines 64-74: the class of the entity of a service
EntityClass(cfg, sp, srv) ==
    IF srv.name = "toilet" THEN "MiotToiletEntity"
    ELSE IF srv.name = "seat" /\ sp.name = "toilet" THEN "MiotToiletEntity"
    ELSE IF Contains(cfg.miot_did, "blt.") THEN "BleBinarySensorEntity"
    ELSE IF Contains(cfg.model, "lumi.") THEN "LumiBinarySensorEntity"
    ELSE "MiotBinarySensorEntity"

\* the constructor call of lines 65-74
Construct(cls, sp, srv) ==
    CASE cls = "MiotToiletEntity"       -> MiotToiletEntity(sp, srv)
      [] cls = "BleBinarySensorEntity"  -> BleBinarySensorEntity(sp, srv)
      [] cls = "LumiBinarySensorEntity" -> LumiBinarySensorEntity(sp, srv)
      [] OTHER                          -> MiotBinarySensorEntity(cls, sp, srv)

\* lines 55-74: the loop over the candidate services; it ends when a
\* constructor raises
RECURSIVE BuildEntities(_, _, _, _)
BuildEntities(cfg, sp, srvs, acc) ==
    IF srvs = <<>> THEN [raised |-> FALSE, entities |-> acc]
    ELSE LET srv == Head(srvs)
         IN  IF Skipped(cfg, sp, srv) THEN BuildEntities(cfg, sp, Tail(srvs), acc)
             ELSE IF init_raises(srv) THEN [raised |-> TRUE, entities |-> acc]
             ELSE BuildEntities(cfg, sp, Tail(srvs),
                                Append(acc, Construct(EntityClass(cfg, sp, srv), sp, srv)))

\* lines 51-55
SetupEntities(cfg, sp) ==
    IF cfg.miot_type
    THEN BuildEntities(cfg, sp, get_services(sp, Range(CandidateNames)), <<>>)
    ELSE [raised |-> FALSE, entities |-> <<>>]

async_setup_platform ==
    /\ pc = "start"
    /\ add_entities' = add_entities \cup {ENTITY_DOMAIN}
    /\ LET r == SetupEntities(config, spec)
       IN  /\ entities' = r.entities
           /\ IF r.raised
              THEN /\ pc' = "raised"
                   /\ UNCHANGED <<hass_entities, add_calls>>
              ELSE /\ pc' = "done"
                   /\ hass_entities' = hass_entities \cup Range(r.entities)
                   /\ add_calls' = Append(add_calls, r.entities)
    /\ last' = [op |-> "async_setup_platform"]
    /\ UNCHANGED <<config, spec, sub_calls, entity, available, state, state_attrs, subs>>

\* the inputs of the setup
Dids == {"", "1021", "blt.3.17"}
Models == {"", "lumi.sensor_wleak.aq1", "lumi.motion.agl04", "xjx.toilet.pro"}

NoCustom ==
    [reverse_state |-> FALSE, motion_timeout |-> None,
     use_ble_object |-> FALSE, is_miot_cloud |-> FALSE]

Config(miot, did, model, custom) ==
    [miot_type |-> miot, miot_did |-> did, model |-> model, custom |-> custom]

NoEntity == [cls |-> "None"]

InitSetup ==
    /\ \E miot \in BOOLEAN, did \in Dids, model \in Models :
           config = Config(miot, did, model, NoCustom)
    /\ \E sp \in Specs : spec = WithValues(sp, NoValues)
    /\ pc = "start"
    /\ entities = <<>>
    /\ hass_entities = {}
    /\ add_calls = <<>>
    /\ add_entities = {}
    /\ sub_calls = <<>>
    /\ entity = NoEntity
    /\ available = FALSE
    /\ state = None
    /\ state_attrs = <<>>
    /\ subs = {}
    /\ last = [op |-> "None"]

NextSetup == async_setup_platform

SpecSetup == InitSetup /\ [][NextSetup]_vars

---------------------------------------------------------------------------
(* Properties of async_setup_platform and of the constructors *)

\* what the platform's callback received
Added == IF add_calls = <<>> THEN <<>> ELSE add_calls[1]

Candidates == get_services(spec, Range(CandidateNames))

SetupOver == pc \in {"done", "raised"}

\* the candidate services the claims call "not skipped"
ClaimSkipped(srv) ==
    /\ srv.props = <<>>
    /\ \A i \in 1..Len(spec.services) : spec.services[i].name # "nobody_time"
    /\ config.model # "lumi.sensor_wleak.aq1"

RECURSIVE Keep(_)
Keep(srvs) ==
    IF srvs = <<>> THEN <<>>
    ELSE IF ClaimSkipped(Head(srvs)) THEN Keep(Tail(srvs))
         ELSE <<Head(srvs)>> \o Keep(Tail(srvs))

ClaimClass(srv) ==
    CASE srv.name = "toilet" -> "MiotToiletEntity"
      [] srv.name # "toilet" /\ srv.name = "seat" /\ spec.name = "toilet" -> "MiotToiletEntity"
      [] OTHER ->
            IF Contains(config.miot_did, "blt.") THEN "BleBinarySensorEntity"
            ELSE IF Contains(config.model, "lumi.") THEN "LumiBinarySensorEntity"
            ELSE "MiotBinarySensorEntity"

\* C1: once async_setup_platform is over with a miot_type configured, the
\* entities are, in order, one per candidate service that is not skipped,
\* each of the class the first matching rule gives (toilet, seat of a toilet,
\* 'blt.' device id, 'lumi.' model, otherwise the plain class).
C1_OneEntityPerService ==
    (SetupOver /\ config.miot_type) =>
        /\ Len(Added) = Len(Keep(Candidates))
        /\ \A i \in 1..Len(Added) :
              /\ Added[i].service = Keep(Candidates)[i]
              /\ Added[i].cls = ClaimClass(Keep(Candidates)[i])

\* C2: once async_setup_platform is over, a candidate service has no entity
\* if and only if it is skipped (empty mapping, no 'nobody_time' service, model
\* not 'lumi.sensor_wleak.aq1'); without a miot_type no entity is created; and
\* async_add_entities has been called exactly once.
C2_SkippedIffNoEntity ==
    SetupOver =>
        /\ Len(add_calls) = 1
        /\ ~config.miot_type => Added = <<>>
        /\ config.miot_type =>
              \A i \in 1..Len(Candidates) :
                  ClaimSkipped(Candidates[i]) <=>
                      ~\E j \in 1..Len(Added) : Added[j].service = Candidates[i]

\* the state property the claim names for a service
ClaimFirst(srv) ==
    IF srv.props # <<>> /\ srv.props[1] # "" THEN Some(srv.props[1]) ELSE None

ClaimMotion(srv) ==
    IF "motion_state" \in Range(srv.props) THEN Some("motion_state")
    ELSE IF "no_motion_duration" \in Range(srv.props) THEN Some("no_motion_duration")
    ELSE ClaimFirst(srv)

ClaimStateProperty(srv) ==
    CASE srv.name = "motion_sensor" ->
            IF ClaimMotion(srv) \in {None, Some("illumination")}
            THEN IF \E i \in 1..Len(spec.services) :
                        /\ spec.services[i].name = "nobody_time"
                        /\ "nobody_time" \in Range(spec.services[i].props)
                 THEN Some("nobody_time.nobody_time")
                 ELSE None
            ELSE Some("motion_sensor." \o Val(ClaimMotion(srv)))
      [] srv.name = "magnet_sensor" ->
            IF "contact_state" \in Range(srv.props) THEN Some("magnet_sensor.contact_state")
            ELSE IF ClaimFirst(srv) = None THEN None
            ELSE Some("magnet_sensor." \o Val(ClaimFirst(srv)))
      [] srv.name = "submersion_sensor" ->
            IF "submersion_state" \in Range(srv.props)
            THEN Some("submersion_sensor.submersion_state")
            ELSE IF ClaimFirst(srv) = None THEN None
            ELSE Some("submersion_sensor." \o Val(ClaimFirst(srv)))

ClaimDeviceClass(srv) ==
    CASE srv.name = "motion_sensor"     -> "motion"
      [] srv.name = "magnet_sensor"     -> "door"
      [] srv.name = "submersion_sensor" -> "moisture"

SensorNames == {"motion_sensor", "magnet_sensor", "submersion_sensor"}

\* C3: the construction of the entity of every motion, magnet or submersion
\* service that is not skipped completes (the setup does not end in an
\* exception), the 'state_property' attribute is the full name of the
\* property the claim selects, or None, and the device class is motion, door
\* or moisture.
C3_ConstructionCompletes ==
    SetupOver =>
        /\ pc = "done"
        /\ \A i \in 1..Len(entities) :
              entities[i].service.name \in SensorNames =>
                  /\ entities[i].state_property = ClaimStateProperty(entities[i].service)
                  /\ entities[i].device_class = ClaimDeviceClass(entities[i].service)

\* the selection of C3 wherever the construction completes
C3_SelectionWhenCompleted ==
    \A i \in 1..Len(entities) :
        entities[i].service.name \in SensorNames =>
            /\ entities[i].state_property = ClaimStateProperty(entities[i].service)
            /\ entities[i].device_class = ClaimDeviceClass(entities[i].service)

\* C1 and C2 wherever the setup completes
C1_WhenCompleted == pc = "done" => C1_OneEntityPerService
C2_WhenCompleted == pc = "done" => C2_SkippedIffNoEntity

---------------------------------------------------------------------------
(* The entity: attributes, is_on and state *)

\* dict.update: the entries of adt over those of attrs
Update(attrs, adt) ==
    [k \in DOMAIN attrs \cup DOMAIN adt |->
        IF k \in DOMAIN adt THEN adt[k] ELSE attrs[k]]

Entry(k, v) == [x \in {k} |-> v]

NoAttrs == [x \in {} |-> 0]

\* MiotProperty.from_dict(attrs): the attribute of the property, or None
from_dict(p, attrs) ==
    IF p.full_name \in DOMAIN attrs THEN Some(attrs[p.full_name]) ELSE None

\* MiotProperty.value_range, range_min() and range_step()
has_value_range(p) == p.full_name \in spec.value.ranged
has_value_list(p) == p.full_name \in spec.value.listed

\* custom_config_integer('motion_timeout') and custom_config_bool(...)
motion_timeout == config.custom.motion_timeout
reverse_state == config.custom.reverse_state
use_ble_object == config.custom.use_ble_object

\* lines 132-138: a timeout that ignores a motion_timeout of 0
motion_duration_falsy(p) ==
    IF Truthy(motion_timeout) THEN Val(motion_timeout)
    ELSE IF has_value_range(p) /\ spec.value.rstep >= 10
         THEN spec.value.rmin + spec.value.rstep
         ELSE 60

\* lines 132-138
motion_duration(p) ==
    IF motion_timeout # None THEN Val(motion_timeout)
    ELSE IF has_value_range(p) /\ spec.value.rstep >= 10
         THEN spec.value.rmin + spec.value.rstep
         ELSE 60

\* lines 122-140 with None in place of the stored _state
is_on_no_fallback ==
    IF entity.prop_state = None THEN None
    ELSE LET p == Val(entity.prop_state)
             val == from_dict(p, state_attrs)
         IN  IF val = None THEN None
             ELSE IF reverse_state THEN Some(Bool(~Truthy(val)))
             ELSE IF p.name \in {"no_motion_duration", "nobody_time"}
                  THEN Some(Bool(Val(val) <= motion_duration(p)))
             ELSE IF Truthy(val) THEN Some(Bool(TRUE)) ELSE val

\* lines 122-140
is_on ==
    IF entity.prop_state = None THEN state
    ELSE LET p == Val(entity.prop_state)
             val == from_dict(p, state_attrs)
         IN  IF val = None THEN state
             ELSE IF reverse_state THEN Some(Bool(~Truthy(val)))
             ELSE IF p.name \in {"no_motion_duration", "nobody_time"}
                  THEN Some(Bool(Val(val) <= motion_duration(p)))
             ELSE IF Truthy(val) THEN Some(Bool(TRUE)) ELSE val

\* lines 142-147
entity_state ==
    IF is_on = None THEN "unknown"
    ELSE IF Truthy(is_on) THEN "on" ELSE "off"

---------------------------------------------------------------------------
(* async_update of the base classes *)

\* the values a device reports for the state property
PropValues == {0, 1, 10, 11, 12, 30, 31, 60, 61}

\* MiotEntity._update_sub_entities(names, domain=...): a sub-entity for each
\* of the service's properties named so, when the domain has a callback
update_sub_entities(sbs, srv, names, domain) ==
    IF domain \in add_entities
    THEN sbs \cup {FullName(srv, n) : n \in names \cap Range(srv.props)}
    ELSE sbs

\* MiotToggleEntity.async_update: the device is polled; it may be unavailable
\* (avail), and the state property may get a value.  The attributes it may
\* leave behind:
SuperAttrs(avail, values) ==
    IF avail /\ entity.prop_state # None
    THEN {state_attrs} \cup
         {Update(state_attrs, Entry(Val(entity.prop_state).full_name, v)) : v \in values}
    ELSE {state_attrs}

\* MiotBinarySensorEntity.async_update, lines 116-120
MiotBinarySensorEntity_async_update ==
    /\ pc = "entity"
    /\ entity.cls = "MiotBinarySensorEntity"
    /\ \E avail \in BOOLEAN :
        \E attrs \in SuperAttrs(avail, PropValues) :
           /\ available' = avail
           /\ state_attrs' = attrs
           /\ subs' = IF avail
                      THEN update_sub_entities(subs, entity.service,
                              {"illumination", "no_motion_duration"}, "sensor")
                      ELSE subs
    /\ last' = [op |-> "async_update"]
    /\ UNCHANGED <<config, spec, pc, entities, hass_entities, add_calls, add_entities,
                   sub_calls,
                   entity, state>>

---------------------------------------------------------------------------
(* The entities of a device after its setup *)

\* specs of a sensor device: a motion, magnet or submersion service, alone or
\* followed by a nobody_time or illumination_sensor service
SensorSpecs ==
    {sp \in Specs :
        /\ sp.name = "motion_sensor"
        /\ sp.services[1].name \in SensorNames
        /\ \A i \in 2..Len(sp.services) :
              sp.services[i].name \in {"nobody_time", "illumination_sensor"}}

\* the state after async_setup_platform has completed for cfg and sp, with
\* the first entity it created under observation
InitEntity(cfg, sp) ==
    LET r == SetupEntities(cfg, sp)
    IN  /\ ~r.raised
        /\ r.entities # <<>>
        /\ config = cfg
        /\ spec = sp
        /\ pc = "entity"
        /\ entities = r.entities
        /\ hass_entities = Range(r.entities)
        /\ add_calls = <<r.entities>>
        /\ add_entities = {ENTITY_DOMAIN}
        /\ sub_calls = <<>>
        /\ entity = r.entities[1]
        /\ available = FALSE
        /\ state = None
        /\ state_attrs = Entry("state_property", r.entities[1].state_property)
        /\ subs = {}
        /\ last = [op |-> "None"]

\* the value ranges a state property may have: none, or a minimum and a step
RangeValues(p) ==
    {NoValues} \cup
    {[ranged |-> {p.full_name}, rmin |-> r[1], rstep |-> r[2], listed |-> {}] :
        r \in {<<0, 9>>, <<0, 10>>, <<1, 10>>}}

MotionTimeouts == {None, Some(0), Some(30)}

Init ==
    \E sp \in SensorSpecs, rev \in BOOLEAN, mt \in MotionTimeouts :
        LET cfg == Config(TRUE, "1021", "qmi.sensor.v1",
                          [reverse_state |-> rev, motion_timeout |-> mt,
                           use_ble_object |-> FALSE, is_miot_cloud |-> FALSE])
            first == SetupEntities(cfg, WithValues(sp, NoValues))
        IN  /\ ~first.raised /\ first.entities # <<>>
            /\ \E vals \in IF first.entities[1].prop_state = None THEN {NoValues}
                           ELSE RangeValues(Val(first.entities[1].prop_state)) :
                   InitEntity(cfg, WithValues(sp, vals))

Next == MiotBinarySensorEntity_async_update

Spec == Init /\ [][Next]_vars

---------------------------------------------------------------------------
(* Properties of is_on *)

StateValue ==
    IF entity.prop_state = None THEN None
    ELSE from_dict(Val(entity.prop_state), state_attrs)

IsDurationProperty ==
    /\ entity.prop_state # None
    /\ Val(entity.prop_state).name \in {"no_motion_duration", "nobody_time"}

\* the timeout the claim states
ClaimTimeout ==
    IF config.custom.motion_timeout # None THEN config.custom.motion_timeout[1]
    ELSE IF /\ Val(entity.prop_state).full_name \in spec.value.ranged
            /\ spec.value.rstep >= 10
         THEN spec.value.rmin + spec.value.rstep
         ELSE 60

\* C5: with a value of the state property and reverse_state not set, is_on
\* is true exactly when value <= timeout for the properties
\* no_motion_duration and nobody_time (timeout: the configured motion_timeout
\* if set, else range_min + range_step of a value range with step >= 10, else
\* 60), and is truthy exactly when the value is truthy for any other property.
C5_IsOnByTimeout ==
    (StateValue # None /\ ~config.custom.reverse_state) =>
        IF IsDurationProperty
        THEN is_on = Some(Bool(StateValue[1] <= ClaimTimeout))
        ELSE Truthy(is_on) <=> StateValue[1] # 0

\* a duration equal to the timeout taken from the value range: on
C5_Witness ==
    /\ IsDurationProperty
    /\ ~config.custom.reverse_state
    /\ config.custom.motion_timeout = None
    /\ Val(entity.prop_state).full_name \in spec.value.ranged
    /\ spec.value.rstep >= 10
    /\ StateValue = Some(spec.value.rmin + spec.value.rstep)
    /\ is_on = Some(1)

---------------------------------------------------------------------------
(* LumiBinarySensorEntity.async_update *)

\* time.time() at the update, and the times of the events (seconds)
Clock == {1000}
EventTimes == {940, 990}

LumiTypes ==
    {"event.motion", "event.open", "event.close", "event.leak", "event.no_leak",
     "prop.illumination", "event.other"}

\* json.loads of what get_last_device_data returns: nothing, a list too short
\* to hold an entry, or [time, [type, [value]]]
LumiLogs ==
    {<<>>, <<990>>} \cup {<<t, <<typ, <<5>>>>>> : t \in EventTimes, typ \in LumiTypes}

\* lines 222 and 360: self.custom_config_integer('motion_timeout') or 60
timeout_or_default == IF Truthy(motion_timeout) THEN Val(motion_timeout) ELSE 60

\* lines 345-357: typ, dif and the attributes of the log entry
lumi_typ(pes) == IF Len(pes) >= 2 THEN Some(pes[2][1]) ELSE None

lumi_dif(pes, now) == IF Len(pes) >= 2 THEN now - pes[1] ELSE now

lumi_adt(pes) ==
    LET trigger == IF Len(pes) >= 2
                   THEN [k \in {"trigger_type", "trigger_time", "trigger_at"} |->
                            CASE k = "trigger_type" -> pes[2][1]
                              [] k = "trigger_time" -> pes[1]
                              [] k = "trigger_at"   -> [fromtimestamp |-> pes[1]]]
                   ELSE NoAttrs
        prop == get_property(entity.service, <<"illumination">>)
    IN  IF lumi_typ(pes) = Some("prop.illumination") /\ prop # None
        THEN Update(trigger, Entry(Val(prop).full_name, pes[2][2][1]))
        ELSE trigger

\* lines 358-368 without the reset of line 358
lumi_state_kept(pes, now) ==
    LET typ == lumi_typ(pes)
    IN  IF typ = Some("event.motion") \/ entity.service.name = "motion_sensor"
        THEN Some(Bool(lumi_dif(pes, now) <= timeout_or_default))
        ELSE IF typ \in {Some("event.open"), Some("event.close")}
             THEN Some(Bool(typ = Some("event.open")))
        ELSE IF typ \in {Some("event.leak"), Some("event.no_leak")}
             THEN Some(Bool(typ = Some("event.leak")))
        ELSE state

\* lines 358-368: self._state
lumi_state(pes, now) ==
    LET typ == lumi_typ(pes)
    IN  IF typ = Some("event.motion") \/ entity.service.name = "motion_sensor"
        THEN Some(Bool(lumi_dif(pes, now) <= timeout_or_default))
        ELSE IF typ \in {Some("event.open"), Some("event.close")}
             THEN Some(Bool(typ = Some("event.open")))
        ELSE IF typ \in {Some("event.leak"), Some("event.no_leak")}
             THEN Some(Bool(typ = Some("event.leak")))
        ELSE None

\* lines 329-372
LumiBinarySensorEntity_async_update ==
    /\ pc = "entity"
    /\ entity.cls = "LumiBinarySensorEntity"
    /\ \E avail \in BOOLEAN, now \in Clock :
        \E attrs \in SuperAttrs(avail, {61}) :
          /\ available' = avail
          /\ subs' = IF avail
                     THEN update_sub_entities(subs, entity.service,
                             {"illumination", "no_motion_duration"}, "sensor")
                     ELSE subs
          /\ IF ~avail
             THEN /\ state_attrs' = attrs
                  /\ state' = state
                  /\ last' = [op |-> "lumi_update", avail |-> FALSE]
             ELSE \E pes \in IF config.custom.is_miot_cloud THEN LumiLogs ELSE {<<>>} :
                    LET sta == lumi_state(pes, now)
                        adt == IF entity.prop_state # None /\ sta # None
                               THEN Update(lumi_adt(pes),
                                           Entry(Val(entity.prop_state).full_name, Val(sta)))
                               ELSE lumi_adt(pes)
                    IN  /\ state' = sta
                        /\ state_attrs' = Update(attrs, adt)
                        /\ last' = [op |-> "lumi_update", avail |-> TRUE, now |-> now,
                                    pes |-> pes, adt |-> adt, pre |-> state]
    /\ UNCHANGED <<config, spec, pc, entities, hass_entities, add_calls, add_entities,
                   sub_calls, entity>>

\* the specs of a Lumi sensor: the sensor service with at most one property,
\* alone or followed by nobody_time services
LumiSpecs ==
    {sp \in SensorSpecs :
        /\ Len(sp.services[1].props) <= 1
        /\ \A i \in 2..Len(sp.services) : sp.services[i].name = "nobody_time"}

InitLumi ==
    \E sp \in LumiSpecs, rev \in BOOLEAN, mt \in MotionTimeouts, cloud \in BOOLEAN :
        InitEntity(Config(TRUE, "1021", "lumi.sensor_motion.v2",
                          [reverse_state |-> rev, motion_timeout |-> mt,
                           use_ble_object |-> FALSE, is_miot_cloud |-> cloud]),
                   WithValues(sp, NoValues))

NextLumi == LumiBinarySensorEntity_async_update

SpecLumi == InitLumi /\ [][NextLumi]_vars

---------------------------------------------------------------------------
(* Properties of state and of LumiBinarySensorEntity.async_update *)

\* C4: the state is one of on, off and unknown; it is unknown exactly when
\* is_on is None; is_on is the stored _state whenever no state property is
\* selected or it has no value in the attributes; so the state is unknown
\* exactly when there is neither a property value nor a stored _state.
C4_StateFromIsOn ==
    /\ entity_state \in {"on", "off", "unknown"}
    /\ entity_state = "unknown" <=> is_on = None
    /\ StateValue = None => is_on = state
    /\ entity_state = "unknown" <=> (StateValue = None /\ state = None)

\* no value of a state property, a stored _state of True: the state is on
C4_Witness ==
    /\ entity.cls = "LumiBinarySensorEntity"
    /\ StateValue = None
    /\ state = Some(1)
    /\ entity_state = "on"

LumiUpdated == last.op = "lumi_update" /\ last.avail

LogType == IF Len(last.pes) >= 2 THEN last.pes[2][1] ELSE "None"

\* the _state the claim gives for the fetched log, with the timeout `t`
ClaimLumiState(t) ==
    IF LogType = "event.motion" \/ entity.service.name = "motion_sensor"
    THEN IF Len(last.pes) >= 2
         THEN Some(Bool(last.now - last.pes[1] <= t))
         ELSE Some(0)
    ELSE CASE LogType = "event.open"    -> Some(1)
           [] LogType = "event.close"   -> Some(0)
           [] LogType = "event.leak"    -> Some(1)
           [] LogType = "event.no_leak" -> Some(0)
           [] OTHER                     -> None

\* the state property's attribute is written with _state
WrittenWithState ==
    /\ entity.prop_state # None
    /\ state # None
    /\ Val(entity.prop_state).full_name \in DOMAIN last.adt
    /\ last.adt[Val(entity.prop_state).full_name] = Val(state)
    /\ state_attrs[Val(entity.prop_state).full_name] = Val(state)

---------------------------------------------------------------------------
(* BleBinarySensorEntity.async_update *)

MaxObjects == 2

HexChars == "0123456789abcdef"

IsHex(c) == \E i \in 1..Len(HexChars) : SubSeq(HexChars, i, i) = c

HexDigit(c) == (CHOOSE i \in 1..Len(HexChars) : SubSeq(HexChars, i, i) = c) - 1

\* bytes.fromhex(s): the bytes, or None for the ValueError
fromhex(s) ==
    IF Len(s) % 2 = 0 /\ \A i \in 1..Len(s) : IsHex(SubSeq(s, i, i))
    THEN Some([i \in 1..(Len(s) \div 2) |->
                 16 * HexDigit(SubSeq(s, 2 * i - 1, 2 * i - 1))
                    + HexDigit(SubSeq(s, 2 * i, 2 * i))])
    ELSE None

\* int.from_bytes(b, 'little')
RECURSIVE from_bytes_little(_)
from_bytes_little(b) ==
    IF b = <<>> THEN 0 ELSE Head(b) + 256 * from_bytes_little(Tail(b))

\* lines 206-211: val decoded from hex, None when it cannot be decoded
decode(raw) ==
    IF raw = None \/ Val(raw) = "" THEN raw
    ELSE IF fromhex(Val(raw)) = None THEN None
    ELSE Some(from_bytes_little(Val(fromhex(Val(raw)))))

\* lines 223-225 and 229-231: the key of the illumination
illumination_key ==
    IF entity.prop_illumination # None /\ has_value_range(Val(entity.prop_illumination))
    THEN Val(entity.prop_illumination).full_name
    ELSE "illumination"

\* MiotProperty.list_value(description): the value of the list item
list_value(p, des) ==
    IF has_value_list(p) THEN Some(IF des = "strong" THEN 1 ELSE 0) ELSE None

\* lines 216-255: one object of the response; acc is [sta, adt]
ble_object(k, tim, val, now, acc) ==
    LET put(adt, vlk, v) == IF vlk # None /\ v # None
                            THEN Update(adt, Entry(Val(vlk), Val(v))) ELSE adt
    IN  CASE k = "event.15" ->
                [sta |-> Some(Bool(now - tim <= timeout_or_default)),
                 adt |-> put(Update(acc.adt,
                                    [x \in {"trigger_time", "trigger_at"} |->
                                        IF x = "trigger_time" THEN tim
                                        ELSE [fromtimestamp |-> tim]]),
                             Some(illumination_key), val)]
          [] k = "prop.4103" ->
                [sta |-> acc.sta, adt |-> put(acc.adt, Some(illumination_key), val)]
          [] k = "prop.4119" ->
                LET prop == get_property(entity.service, <<"no_motion_duration">>)
                IN  [sta |-> acc.sta,
                     adt |-> put(acc.adt,
                                 Some(IF prop # None THEN Val(prop).full_name
                                      ELSE "no_motion_duration"),
                                 val)]
          [] k = "prop.4120" ->
                LET des == IF Truthy(val) THEN "strong" ELSE "weak"
                    a1 == Update(acc.adt, Entry("light_strong", Bool(Truthy(val))))
                    pil == entity.prop_illumination
                    a2 == IF pil # None /\ has_value_list(Val(pil))
                             /\ list_value(Val(pil), des) # None
                          THEN Update(a1, Entry(Val(pil).full_name,
                                                Val(list_value(Val(pil), des))))
                          ELSE a1
                IN  [sta |-> acc.sta,
                     adt |-> Update(a2, Entry("illumination_level", des))]
          [] k = "prop.4121" ->
                [sta |-> Some(Bool(val # Some(2))), adt |-> acc.adt]
          [] OTHER -> acc

\* lines 197-255: the loop over the objects of the response
RECURSIVE ble_loop(_, _, _)
ble_loop(items, now, acc) ==
    IF items = <<>> THEN acc
    ELSE LET k == Head(items).key
             v == Head(items).value
             ise == Contains(k, "event.")
             evt == Val(v)
             tim == IF Truthy(evt.timestamp) THEN Val(evt.timestamp) ELSE 0
             val == decode(IF evt.value # <<>> THEN Some(evt.value[1]) ELSE None)
         IN  IF v = None THEN ble_loop(Tail(items), now, acc)
             ELSE IF ise /\ tim = 0 THEN ble_loop(Tail(items), now, acc)
             ELSE ble_loop(Tail(items), now, ble_object(k, tim, val, now, acc))

\* the objects a response may hold: null, a JSON event with or without a
\* timestamp (line 201: json.loads(v)), or the hex string of a property
\* (line 201: {'value': [v]})
Event(ts, hex) == Some([timestamp |-> ts, value |-> <<hex>>])

Hex(hex) == Some([timestamp |-> None, value |-> <<hex>>])

\* the objects that bear on _state: the motion event (null, without a
\* timestamp, recent, or older with an undecodable value), the magnet
\* property, and two properties that only write attributes
BleObjects ==
    {[key |-> "event.15", value |-> v] :
        v \in {None, Event(None, "0100"), Event(Some(990), "0100"),
               Event(Some(940), "zz")}}
    \cup {[key |-> "prop.4121", value |-> Hex(h)] : h \in {"02", "0100", "zz"}}
    \cup {[key |-> "prop.4103", value |-> Hex("0100")],
          [key |-> "prop.4120", value |-> Hex("zz")]}

\* every object key with a value that decodes and one that does not
BleKeys == {"event.15", "prop.4103", "prop.4106", "prop.4119", "prop.4120", "prop.4121"}

BleDecodeObjects ==
    {[key |-> k,
      value |-> IF k = "event.15" THEN Event(Some(990), h) ELSE Hex(h)] :
        k \in BleKeys, h \in {"0100", "zz"}}

\* (rdt.get('result') or {}).get(did, {}): objects of distinct keys, in order
BleResponses(objects) ==
    {q \in DistinctSeqs(objects, MaxObjects) :
        \A i, j \in 1..Len(q) : i # j => q[i].key # q[j].key}

\* lines 174-175: await super().async_update()
BleBinarySensorEntity_super_update ==
    /\ pc = "entity"
    /\ entity.cls = "BleBinarySensorEntity"
    /\ \E avail \in BOOLEAN :
          /\ available' = avail
          /\ subs' = IF avail
                     THEN update_sub_entities(subs, entity.service,
                             {"illumination", "no_motion_duration"}, "sensor")
                     ELSE subs
    /\ pc' = "ble"
    /\ last' = [op |-> "super_update"]
    /\ UNCHANGED <<config, spec, entities, hass_entities, add_calls, add_entities,
                   sub_calls,
                   entity, state, state_attrs>>

\* lines 176-185 without the check of 'use_ble_object'
ble_step_runs_unasked ==
    /\ available
    /\ config.miot_did # ""
    /\ config.custom.is_miot_cloud

\* lines 176-185: the guards of the BLE step
ble_step_runs ==
    /\ available
    /\ use_ble_object
    /\ config.miot_did # ""
    /\ config.custom.is_miot_cloud

\* lines 176-179 and 181-259: the BLE step
BleBinarySensorEntity_ble_step(responses) ==
    /\ pc = "ble"
    /\ pc' = "entity"
    /\ IF ~ble_step_runs
       THEN /\ last' = [op |-> "ble_step", ran |-> FALSE, pre |-> state]
            /\ UNCHANGED <<state, state_attrs>>
       ELSE \E props \in responses, now \in Clock :
              LET r == ble_loop(props, now, [sta |-> None, adt |-> NoAttrs])
              IN  /\ state' = IF r.sta # None THEN r.sta ELSE state
                  /\ state_attrs' = IF r.adt # NoAttrs THEN Update(state_attrs, r.adt)
                                    ELSE state_attrs
                  /\ last' = [op |-> "ble_step", ran |-> TRUE, pre |-> state,
                              props |-> props, now |-> now, adt |-> r.adt]
    /\ UNCHANGED <<config, spec, entities, hass_entities, add_calls, add_entities,
                   sub_calls,
                   entity, available, subs>>

\* the specs of a BLE sensor: a motion sensor with its own illumination, or a
\* magnet sensor, alone or with an illumination_sensor service
BleSpecs ==
    {sp \in SensorSpecs :
        /\ sp.services[1].props \in {<<"no_motion_duration", "illumination">>,
                                     <<"contact_state">>}
        /\ \A i \in 2..Len(sp.services) :
              /\ sp.services[i].name = "illumination_sensor"
              /\ sp.services[i].props # <<>>
              /\ sp.services[1].name = "magnet_sensor"}

\* the illumination property has a value range, a value list, or neither
IlluminationValues(sp) ==
    LET p == BleBinarySensorEntity(sp, sp.services[1]).prop_illumination
    IN  IF p = None THEN {NoValues}
        ELSE {NoValues,
              [ranged |-> {Val(p).full_name}, rmin |-> 0, rstep |-> 1, listed |-> {}],
              [ranged |-> {}, rmin |-> 0, rstep |-> 1, listed |-> {Val(p).full_name}]}

\* the configurations of a BLE sensor: the motion timeout and the flags of
\* the BLE step vary for a plain illumination property only
BleConfigs ==
    {c \in [sp : BleSpecs, mt : MotionTimeouts,
            flags : {<<TRUE, TRUE>>, <<FALSE, TRUE>>, <<TRUE, FALSE>>}] :
        c.flags # <<TRUE, TRUE>> => c.mt = None}

BleValues(c) ==
    IF c.mt = None /\ c.flags = <<TRUE, TRUE>>
    THEN IlluminationValues(WithValues(c.sp, NoValues))
    ELSE {NoValues}

InitBle ==
    \E c \in BleConfigs :
      \E vals \in BleValues(c) :
        InitEntity(Config(TRUE, "blt.3.17", "lumi.sensor_motion.v2",
                          [reverse_state |-> FALSE, motion_timeout |-> c.mt,
                           use_ble_object |-> c.flags[1], is_miot_cloud |-> c.flags[2]]),
                   WithValues(c.sp, vals))

ble_step == BleBinarySensorEntity_ble_step(BleResponses(BleObjects))

NextBle == BleBinarySensorEntity_super_update \/ ble_step

SpecBle == InitBle /\ [][NextBle]_vars

ble_step_decode == BleBinarySensorEntity_ble_step(BleResponses(BleDecodeObjects))

NextBleDecode == BleBinarySensorEntity_super_update \/ ble_step_decode

SpecBleDecode == InitBle /\ [][NextBleDecode]_vars

---------------------------------------------------------------------------
(* Properties of BleBinarySensorEntity.async_update *)

\* the value the claims give a hex string: "02" is 2, "0100" is 1 (little
\* endian), "zz" cannot be decoded
ClaimDecoded(hex) ==
    CASE hex = "02"   -> Some(2)
      [] hex = "0100" -> Some(1)
      [] OTHER        -> None

\* the non-null objects of a key in the response
ObjectsOf(props, key) ==
    {i \in 1..Len(props) : props[i].key = key /\ props[i].value # None}

\* the values of _state the claim allows after the BLE step ran on props
ClaimBleStates(props, now, before, t) ==
    LET evs == {i \in ObjectsOf(props, "event.15") :
                   props[i].value[1].timestamp \notin {None, Some(0)}}
        mgs == ObjectsOf(props, "prop.4121")
    IN  IF evs = {} /\ mgs = {} THEN {before}
        ELSE {Some(Bool(now - props[i].value[1].timestamp[1] <= t)) : i \in evs}
             \cup {Some(Bool(ClaimDecoded(props[i].value[1].value[1]) # Some(2))) : i \in mgs}

\* one BLE step, with motion timeout t
ClaimBleStep(t) ==
    pc = "ble" =>
        IF available /\ config.custom.use_ble_object /\ config.miot_did # ""
              /\ config.custom.is_miot_cloud
        THEN /\ last'.ran
             /\ state' \in ClaimBleStates(last'.props, last'.now, state, t)
        ELSE /\ ~last'.ran
             /\ state' = state
             /\ state_attrs' = state_attrs

\* C6 as stated: the BLE step leaves _state and the attributes alone unless
\* the entity is available, use_ble_object is set, the device id is not
\* empty and the cloud is a MiotCloud; when it runs, _state changes only for
\* a non-null event.15 with a timestamp (on iff now - timestamp <=
\* motion_timeout, 60 when not configured) or a non-null prop.4121 (on iff
\* the decoded value is not 2), and keeps its value otherwise.
C6_BleStep ==
    [][ClaimBleStep(IF config.custom.motion_timeout = None THEN 60
                    ELSE config.custom.motion_timeout[1])]_vars

\* C6 amended: as C6, with the timeout 60 also for a motion_timeout of 0.
C6_BleStepOr60 ==
    [][ClaimBleStep(IF config.custom.motion_timeout \in {None, Some(0)} THEN 60
                    ELSE config.custom.motion_timeout[1])]_vars

\* the step ran on an entity that was on, with no motion event and no magnet
\* property in the response: _state is still on
C6_Witness ==
    /\ last.op = "ble_step"
    /\ last.ran
    /\ last.pre = Some(1)
    /\ last.props # <<>>
    /\ ObjectsOf(last.props, "event.15") = {}
    /\ ObjectsOf(last.props, "prop.4121") = {}
    /\ state = Some(1)

\* the response without the objects whose value cannot be decoded
RECURSIVE Decodable(_)
Decodable(props) ==
    IF props = <<>> THEN <<>>
    ELSE IF /\ Head(props).value # None
            /\ ClaimDecoded(Head(props).value[1].value[1]) = None
         THEN Decodable(Tail(props))
         ELSE <<Head(props)>> \o Decodable(Tail(props))

\* C7: an object whose value cannot be decoded contributes nothing: the
\* attributes written by the BLE step and the _state after it are those of
\* the same response without the undecodable objects.
C7_UndecodableContributesNothing ==
    (last.op = "ble_step" /\ last.ran) =>
        LET r == ble_loop(Decodable(last.props), last.now, [sta |-> None, adt |-> NoAttrs])
        IN  /\ last.adt = r.adt
            /\ state = IF r.sta # None THEN r.sta ELSE last.pre

---------------------------------------------------------------------------
(* MiotToiletEntity.async_update *)

\* MiotService.get_properties(*names): the properties named so, in the
\* service's order
RECURSIVE SelectProperties(_, _, _)
SelectProperties(srv, props, names) ==
    IF props = <<>> THEN <<>>
    ELSE IF Head(props) \in names
         THEN <<Property(srv, Head(props))>> \o SelectProperties(srv, Tail(props), names)
         ELSE SelectProperties(srv, Tail(props), names)

get_properties(srv, names) == SelectProperties(srv, srv.props, names)

\* lines 282-290: the properties that may get a fan sub-entity
toilet_pls ==
    LET own == get_properties(entity.service,
                   {"mode", "washing_strength", "nozzle_position", "heat_level"})
        seat == get_service(spec, "seat")
        prop == IF seat = None THEN None ELSE get_property(Val(seat), <<"heat_level">>)
    IN  IF prop # None THEN Append(own, Val(prop)) ELSE own

\* lines 286-296: the switch sub-entities of a seat without heat_level
toilet_seat_subs(sbs) ==
    LET seat == get_service(spec, "seat")
    IN  IF seat # None /\ get_property(Val(seat), <<"heat_level">>) = None
        THEN update_sub_entities(sbs, Val(seat), {"heating", "deodorization"}, "switch")
        ELSE sbs

\* lines 300-309 and 314-318 without the look-up in self._subs
toilet_sub_always_new(key, domain, acc) ==
    IF domain \in add_entities
    THEN [acc EXCEPT !.subs = acc.subs \cup {key},
                     !.calls = Append(acc.calls, [domain |-> domain, key |-> key])]
    ELSE acc

\* lines 300-309 and 314-318: the sub-entity is updated when it exists, and
\* is created and passed to the callback of its domain when there is one
toilet_sub(key, domain, acc) ==
    IF key \in acc.subs
    THEN [acc EXCEPT !.updated = acc.updated \cup {key}]
    ELSE IF domain \in add_entities
    THEN [acc EXCEPT !.subs = acc.subs \cup {key},
                     !.calls = Append(acc.calls, [domain |-> domain, key |-> key])]
    ELSE acc

\* lines 297-309: the loop over the properties
RECURSIVE toilet_fans(_, _)
toilet_fans(pls, acc) ==
    IF pls = <<>> THEN acc
    ELSE IF ~has_value_list(Head(pls)) /\ ~has_value_range(Head(pls))
         THEN toilet_fans(Tail(pls), acc)
         ELSE toilet_fans(Tail(pls), toilet_sub(Head(pls).name, "fan", acc))

\* lines 311-318
toilet_switch(acc) ==
    IF entity.prop_power # None
    THEN toilet_sub(Val(entity.prop_power).full_name, "switch", acc)
    ELSE acc

\* lines 278-318
MiotToiletEntity_async_update ==
    /\ pc = "entity"
    /\ entity.cls = "MiotToiletEntity"
    /\ \E avail \in BOOLEAN :
        \E attrs \in SuperAttrs(avail, {1}) :
          /\ available' = avail
          /\ state_attrs' = attrs
          /\ IF ~avail
             THEN /\ UNCHANGED <<subs, sub_calls>>
                  /\ last' = [op |-> "toilet_update", avail |-> FALSE,
                              registered |-> add_entities, pre |-> subs,
                              created |-> <<>>, updated |-> {}]
             ELSE LET sbs == toilet_seat_subs(
                                update_sub_entities(subs, entity.service,
                                    {"illumination", "no_motion_duration"}, "sensor"))
                      r == toilet_switch(toilet_fans(toilet_pls,
                               [subs |-> sbs, calls |-> <<>>, updated |-> {}]))
                  IN  /\ subs' = r.subs
                      /\ sub_calls' = sub_calls \o r.calls
                      /\ last' = [op |-> "toilet_update", avail |-> TRUE,
                                  registered |-> add_entities, pre |-> subs,
                                  created |-> r.calls, updated |-> r.updated]
    /\ UNCHANGED <<config, spec, pc, entities, hass_entities, add_calls, add_entities,
                   entity, state>>

\* async_setup_platform of the fan or switch platform registers its callback
\* (as line 48 does for this platform)
RegisterPlatform(domain) ==
    /\ pc = "entity"
    /\ domain \notin add_entities
    /\ add_entities' = add_entities \cup {domain}
    /\ last' = [op |-> "register"]
    /\ UNCHANGED <<config, spec, pc, entities, hass_entities, add_calls, sub_calls,
                   entity, available, state, state_attrs, subs>>

\* the specs of a toilet: a toilet and a seat service, in either order, or
\* one of them alone
ToiletSpecs ==
    {sp \in Specs :
        /\ sp.name = "toilet"
        /\ \A i \in 1..Len(sp.services) : sp.services[i].name \in {"toilet", "seat"}}

\* the properties with a value list: any of those that may get a fan
FanProperties(sp) ==
    {FullName(sp.services[i], n) :
        i \in 1..Len(sp.services),
        n \in {"mode", "washing_strength", "nozzle_position", "heat_level"}}
    \cap UNION {mapping(sp.services[i]) : i \in 1..Len(sp.services)}

InitToilet ==
    \E sp \in ToiletSpecs :
      \E listed \in SUBSET FanProperties(sp) :
        InitEntity(Config(TRUE, "1021", "xjx.toilet.pro", NoCustom),
                   WithValues(sp, [ranged |-> {}, rmin |-> 0, rstep |-> 1,
                                   listed |-> listed]))

NextToilet ==
    \/ MiotToiletEntity_async_update
    \/ RegisterPlatform("fan")
    \/ RegisterPlatform("switch")

SpecToilet == InitToilet /\ [][NextToilet]_vars

---------------------------------------------------------------------------
(* Properties of MiotToiletEntity.async_update *)

\* the keys of the fan sub-entities the claim names: the names of the mode,
\* washing_strength, nozzle_position and heat_level properties of the
\* entity's service, and of the heat_level property of the seat service,
\* that have a value list or a value range
ClaimFanKeys ==
    {n \in {"mode", "washing_strength", "nozzle_position", "heat_level"} :
        \E i \in 1..Len(spec.services) :
            /\ \/ spec.services[i] = entity.service
               \/ spec.services[i].name = "seat" /\ n = "heat_level"
            /\ n \in Range(spec.services[i].props)
            /\ (spec.services[i].name \o "." \o n) \in
                   (spec.value.listed \cup spec.value.ranged)}

\* the key of the switch sub-entity of the power property
ClaimSwitchKeys ==
    IF "on" \in Range(entity.service.props) THEN {entity.service.name \o ".on"} ELSE {}

ClaimSubs ==
    [domain : {"fan"}, key : ClaimFanKeys] \cup [domain : {"switch"}, key : ClaimSwitchKeys]

TimesPassed(c) == Cardinality({i \in 1..Len(sub_calls) : sub_calls[i] = c})

CreatedNow == Range(last.created)

=============================================================================
